---------------------------- MODULE Spec2Model ----------------------------
(***************************************************************************)
(* A model of input.cpp: two global variables, the helpers add and sub,    *)
(* and main (initialisation, two calls, a modulus, a conditional, a while  *)
(* loop, a return).                                                        *)
(*                                                                         *)
(* main is modelled statement by statement.  pc names the source line of   *)
(* the statement that runs next (L22 is "int c = add(a, b);" and so on)    *)
(* and status tells whether main is running, has returned, or was ended by *)
(* a trap raised at the statement pc names.                                *)
(*                                                                         *)
(* The three literals of lines 17-19 are kept in the variable literals.    *)
(* The program's own literals are 5, 10 and true (LitA, LitB, LitFlag);    *)
(* Init also draws every other value of the int range for them, because    *)
(* part of what is checked is about main with other initial values (b = 0, *)
(* a loop that is entered with a >= c).  Literal singles out the runs of   *)
(* the program as written.                                                 *)
(*                                                                         *)
(* int is a two's complement integer of IntBits bits (32 in the build,     *)
(* scaled down here so that the whole range can be enumerated).  Signed    *)
(* overflow, a zero divisor and INT_MIN % -1 are undefined behaviour in    *)
(* C++: the model takes every outcome a build produces for them, which is  *)
(* the wrapped value (the default code generation) or a trap (-ftrapv, the *)
(* divide instruction's fault); a remainder by zero that does not trap     *)
(* leaves an unspecified value.                                            *)
(***************************************************************************)
EXTENDS Integers, FiniteSets

VARIABLES
    globalVar,   \* int globalVar (line 2)
    globalFlag,  \* bool globalFlag (line 3)
    literals,    \* the initialisers of a, b and flag (lines 17-19)
    pc,          \* the line of main's next statement
    status,      \* "run", "exit" (main returned) or "trap" (ended at pc)
    a, b, flag,  \* main's locals of lines 17-19
    c, d, e,     \* main's locals of lines 22-24, Unset before their declaration
    ret,         \* main's return value, Unset before the return
    iters,       \* executions of the while body so far (saturates at MaxIters)
    tpc,         \* position of the utilities' round-trip check, "off" in main's runs
    x, y,        \* its inputs
    sum, diff,   \* add(x, y) and sub(x, y)
    back         \* sub(add(x, y), y)

mainVars == <<globalVar, globalFlag, literals, pc, status, a, b, flag, c, d, e, ret, iters>>
utilVars == <<tpc, x, y, sum, diff, back>>
vars == <<mainVars, utilVars>>

---------------------------------------------------------------------------
(* Bounds of the model *)

IntBits == 6

MaxIters == 6

(* Program constants *)

GlobalVarInit == 42

LitA == 5

LitB == 10

CondBound == 10

---------------------------------------------------------------------------
(* Fixed-width signed integers *)

RECURSIVE Pow2(_)
Pow2(n) == IF n = 0 THEN 1 ELSE 2 * Pow2(n - 1)

INT_MAX == Pow2(IntBits - 1) - 1

INT_MIN == -Pow2(IntBits - 1)

IntRange == INT_MIN..INT_MAX

InRange(v) == INT_MIN <= v /\ v <= INT_MAX

(* The value of a local that is not declared yet, and of a result that was
   never produced: no int. *)
Unset == INT_MIN - 1

(* v reduced to the int range, as two's complement arithmetic leaves it *)
Wrap(v) == ((v - INT_MIN) % Pow2(IntBits)) + INT_MIN

Abs(v) == IF v < 0 THEN -v ELSE v

(* An evaluation ends with a value or in a trap. *)
Ok(v) == [trap |-> FALSE, val |-> v]

Trapped == [trap |-> TRUE, val |-> Unset]

(* The outcomes of an int expression whose mathematical value is v: v itself
   when it is representable, else (signed overflow, undefined) the wrapped
   value or a trap. *)
Eval(v) == IF InRange(v) THEN {Ok(v)} ELSE {Ok(Wrap(v)), Trapped}

---------------------------------------------------------------------------
(* The helpers *)

(* add with the operator of sub *)
add_Minus(p, q) == Eval(p - q)

add(p, q) == Eval(p + q)

(* sub with its operands exchanged *)
sub_Swapped(p, q) == Eval(q - p)

sub(p, q) == Eval(p - q)

(* / written for %: the quotient *)
TruncRem_Quotient(p, q) ==
    IF (p < 0) = (q < 0) THEN Abs(p) \div Abs(q) ELSE -(Abs(p) \div Abs(q))

(* The built-in %: the remainder of the division that truncates toward zero,
   with the sign of the dividend. *)
TruncRem(p, q) == IF p < 0 THEN -(Abs(p) % Abs(q)) ELSE p % Abs(q)

(* A remainder that is guarded against a zero divisor and yields 0 for it *)
Rem_Guarded(p, q) ==
    IF q = 0 THEN {Ok(0)}
    ELSE IF p = INT_MIN /\ q = -1 THEN {Ok(0), Trapped}
    ELSE {Ok(TruncRem(p, q))}

(* The outcomes of p % q.  q = 0 is undefined: a trap, or any value.
   INT_MIN % -1 is undefined (the quotient overflows): a trap, or 0. *)
Rem(p, q) ==
    IF q = 0 THEN {Ok(v) : v \in IntRange} \cup {Trapped}
    ELSE IF p = INT_MIN /\ q = -1 THEN {Ok(0), Trapped}
    ELSE {Ok(TruncRem(p, q))}

---------------------------------------------------------------------------
(* main *)

LitFlag == TRUE

(* The run is one of the program as written. *)
Literal == literals = [a |-> LitA, b |-> LitB, flag |-> LitFlag]

Running(line) == pc = line /\ status = "run"

(* Lines 2, 3, 17-19: the globals' initialisers and main's first three
   declarations.  The utilities' check is off. *)
Init ==
    /\ globalVar = GlobalVarInit
    /\ globalFlag = FALSE
    /\ literals \in [a : IntRange, b : IntRange, flag : BOOLEAN]
    /\ a = literals.a
    /\ b = literals.b
    /\ flag = literals.flag
    /\ c = Unset /\ d = Unset /\ e = Unset
    /\ ret = Unset
    /\ iters = 0
    /\ pc = "L22"
    /\ status = "run"
    /\ tpc = "off"
    /\ x = Unset /\ y = Unset /\ sum = Unset /\ diff = Unset /\ back = Unset

(* Line 22 with a call that also stores its result in globalVar *)
CallAdd_WritesGlobal ==
    /\ Running("L22")
    /\ \E o \in add(a, b) :
         IF o.trap
         THEN status' = "trap" /\ UNCHANGED <<pc, c, globalVar>>
         ELSE c' = o.val /\ globalVar' = o.val /\ pc' = "L23" /\ UNCHANGED status
    /\ UNCHANGED <<globalFlag, literals, a, b, flag, d, e, ret, iters, utilVars>>

(* Line 22: int c = add(a, b); *)
CallAdd ==
    /\ Running("L22")
    /\ \E o \in add(a, b) :
         IF o.trap
         THEN status' = "trap" /\ UNCHANGED <<pc, c>>
         ELSE c' = o.val /\ pc' = "L23" /\ UNCHANGED status
    /\ UNCHANGED <<globalVar, globalFlag, literals, a, b, flag, d, e, ret, iters, utilVars>>

(* Line 23: int d = sub(a,b); *)
CallSub ==
    /\ Running("L23")
    /\ \E o \in sub(a, b) :
         IF o.trap
         THEN status' = "trap" /\ UNCHANGED <<pc, d>>
         ELSE d' = o.val /\ pc' = "L24" /\ UNCHANGED status
    /\ UNCHANGED <<globalVar, globalFlag, literals, a, b, flag, c, e, ret, iters, utilVars>>

(* Line 24: int e = a % b; *)
Modulus ==
    /\ Running("L24")
    /\ \E o \in Rem(a, b) :
         IF o.trap
         THEN status' = "trap" /\ UNCHANGED <<pc, e>>
         ELSE e' = o.val /\ pc' = "L27" /\ UNCHANGED status
    /\ UNCHANGED <<globalVar, globalFlag, literals, a, b, flag, c, d, ret, iters, utilVars>>

(* The condition with < written for > *)
Cond_Below == flag /\ (c < CondBound)

(* Line 27: the condition of the if *)
Cond == flag /\ (c > CondBound)

(* Line 27: if (flag && (c > 10)) *)
IfTest ==
    /\ Running("L27")
    /\ pc' = IF Cond THEN "L28" ELSE "L30"
    /\ UNCHANGED <<globalVar, globalFlag, literals, status, a, b, flag, c, d, e, ret, iters, utilVars>>

(* Line 28: a = a + 1; and on to the loop *)
IfThen ==
    /\ Running("L28")
    /\ \E o \in Eval(a + 1) :
         IF o.trap
         THEN status' = "trap" /\ UNCHANGED <<pc, a>>
         ELSE a' = o.val /\ pc' = "L34" /\ UNCHANGED status
    /\ UNCHANGED <<globalVar, globalFlag, literals, b, flag, c, d, e, ret, iters, utilVars>>

(* Line 30: a = a - 1; and on to the loop *)
IfElse ==
    /\ Running("L30")
    /\ \E o \in Eval(a - 1) :
         IF o.trap
         THEN status' = "trap" /\ UNCHANGED <<pc, a>>
         ELSE a' = o.val /\ pc' = "L34" /\ UNCHANGED status
    /\ UNCHANGED <<globalVar, globalFlag, literals, b, flag, c, d, e, ret, iters, utilVars>>

(* The loop's condition with != written for < *)
LoopGuard_Ne == a # c

(* The loop's condition with <= written for < *)
LoopGuard_Le == a <= c

(* Line 34: the condition of the while *)
LoopGuard == a < c

(* The loop's step with - written for + *)
Incr_Down(v) == v - 2

(* The loop's step with 4 written for 2 *)
Incr_By4(v) == v + 4

(* Line 35: the right-hand side of a = a + 2 *)
Incr(v) == v + 2

(* Lines 34-36: the condition holds and the body runs once *)
WhileIter ==
    /\ Running("L34")
    /\ LoopGuard
    /\ \E o \in Eval(Incr(a)) :
         IF o.trap
         THEN status' = "trap" /\ UNCHANGED <<a, iters>>
         ELSE /\ a' = o.val
              /\ iters' = IF iters < MaxIters THEN iters + 1 ELSE iters
              /\ UNCHANGED status
    /\ UNCHANGED <<globalVar, globalFlag, literals, pc, b, flag, c, d, e, ret, utilVars>>

(* Line 34: the condition fails and the loop is left *)
WhileExit ==
    /\ Running("L34")
    /\ ~LoopGuard
    /\ pc' = "L39"
    /\ UNCHANGED <<globalVar, globalFlag, literals, status, a, b, flag, c, d, e, ret, iters, utilVars>>

(* Line 39: return a; *)
Return ==
    /\ Running("L39")
    /\ ret' = a
    /\ status' = "exit"
    /\ UNCHANGED <<globalVar, globalFlag, literals, pc, a, b, flag, c, d, e, iters, utilVars>>

Next ==
    \/ CallAdd
    \/ CallSub
    \/ Modulus
    \/ IfTest
    \/ IfThen
    \/ IfElse
    \/ WhileIter
    \/ WhileExit
    \/ Return

Spec == Init /\ [][Next]_vars

(* main is one thread that runs each statement as soon as the one before it
   is done: a step that can be taken is taken. *)
FairSpec == Spec /\ WF_vars(Next)

---------------------------------------------------------------------------
(* The utilities on their own: add and sub applied to every pair of ints,
   main not started. *)

UtilInit ==
    /\ globalVar = GlobalVarInit
    /\ globalFlag = FALSE
    /\ literals = [a |-> LitA, b |-> LitB, flag |-> LitFlag]
    /\ a = literals.a
    /\ b = literals.b
    /\ flag = literals.flag
    /\ c = Unset /\ d = Unset /\ e = Unset
    /\ ret = Unset
    /\ iters = 0
    /\ pc = "L22"
    /\ status = "run"
    /\ tpc = "add"
    /\ x \in IntRange
    /\ y \in IntRange
    /\ sum = Unset /\ diff = Unset /\ back = Unset

(* sum = add(x, y) *)
UtilAdd ==
    /\ tpc = "add"
    /\ \E o \in add(x, y) :
         IF o.trap
         THEN tpc' = "trap" /\ UNCHANGED sum
         ELSE sum' = o.val /\ tpc' = "sub"
    /\ UNCHANGED <<mainVars, x, y, diff, back>>

(* diff = sub(x, y) *)
UtilSub ==
    /\ tpc = "sub"
    /\ \E o \in sub(x, y) :
         IF o.trap
         THEN tpc' = "trap" /\ UNCHANGED diff
         ELSE diff' = o.val /\ tpc' = "back"
    /\ UNCHANGED <<mainVars, x, y, sum, back>>

(* back = sub(add(x, y), y) *)
UtilBack ==
    /\ tpc = "back"
    /\ \E o \in sub(sum, y) :
         IF o.trap
         THEN tpc' = "trap" /\ UNCHANGED back
         ELSE back' = o.val /\ tpc' = "done"
    /\ UNCHANGED <<mainVars, x, y, sum, diff>>

UtilNext ==
    \/ UtilAdd
    \/ UtilSub
    \/ UtilBack

UtilSpec == UtilInit /\ [][UtilNext]_vars

---------------------------------------------------------------------------
(* The properties checked *)

AfterL22 == pc # "L22"

AfterL23 == pc \notin {"L22", "L23"}

AfterL24 == pc \notin {"L22", "L23", "L24"}

(* C1: every run of main from a = 5, b = 10, flag = true gets to its return
   with a = 16 and returns 16: none traps, none returns another value. *)
C1_ExitValue ==
    /\ [](Literal => /\ status # "trap"
                     /\ (pc = "L39" => a = 16)
                     /\ (status = "exit" => ret = 16))
    /\ (Literal ~> (status = "exit" /\ ret = 16))

C1_Witness == Literal /\ status = "exit" /\ ret = 16

(* C2: in the program as written every execution of the while body adds
   exactly 2 to a and leaves c at 15, and main always gets to its return. *)
C2_LoopTerminates ==
    /\ [][(Literal /\ Running("L34") /\ a < c) => (a' = a + 2 /\ c' = c /\ c = 15)]_vars
    /\ (Literal ~> (status = "exit"))

C2_Witness == Literal /\ status = "exit" /\ iters > 0 /\ ~(a < c)

(* C3: in the program as written the loop is entered with a = 6 and c = 15,
   after k executions of the body a is 6 + 2k, the condition holds at 6, 8,
   10, 12 and 14 and fails first at 16, so the body runs exactly 5 times and
   the loop is left with a = 16. *)
C3_LoopTrace ==
    Literal => /\ (pc = "L34" => /\ c = 15
                                 /\ iters \in 0..5
                                 /\ a = 6 + 2 * iters
                                 /\ (LoopGuard <=> iters < 5))
               /\ (pc = "L39" => iters = 5 /\ a = 16)

C3_Witness == Literal /\ pc = "L39" /\ iters = 5 /\ a = 16

(* C4: in the program as written the if takes its true branch: the else
   branch (line 30) is never reached, and a is 6 right after the
   conditional. *)
C4_TrueBranch ==
    Literal => /\ pc # "L30"
               /\ (pc = "L28" => a = 5 /\ Cond)
               /\ (pc = "L34" /\ iters = 0 => a = 6)

C4_Witness == Literal /\ pc = "L34" /\ iters = 0 /\ a = 6

(* C5: in the program as written c, d and e have no value before their
   declarations and are 15, -5 and 5 in every state after them, whatever a
   has become. *)
C5_Locals ==
    Literal => /\ c = (IF AfterL22 THEN 15 ELSE Unset)
               /\ d = (IF AfterL23 THEN -5 ELSE Unset)
               /\ e = (IF AfterL24 THEN 5 ELSE Unset)

C5_Witness == Literal /\ status = "exit" /\ a = 16 /\ c = 15 /\ d = -5 /\ e = 5

(* C6 as stated: for all ints x and y, add and sub return (no trap), and
   add(x,y) - sub(x,y) = 2y and sub(add(x,y), y) = x. *)
C6_Original ==
    /\ tpc # "trap"
    /\ (tpc = "done" => sum - diff = 2 * y /\ back = x)

(* C6 as amended: add(x,y) returns x + y whenever x + y is representable and
   sub(x,y) returns x - y whenever x - y is; a call traps only when its
   result is not representable; when x + y is representable
   sub(add(x,y), y) = x, and when x - y is too, add(x,y) - sub(x,y) = 2y. *)
C6_Amended ==
    /\ (tpc \in {"sub", "back", "done"} /\ InRange(x + y) => sum = x + y)
    /\ (tpc \in {"back", "done"} /\ InRange(x - y) => diff = x - y)
    /\ (tpc = "done" /\ InRange(x + y) => back = x)
    /\ (tpc = "done" /\ InRange(x + y) /\ InRange(x - y) => sum - diff = 2 * y)
    /\ (tpc = "trap" => ~InRange(x + y) \/ ~InRange(x - y))
    /\ (tpc = "trap" /\ sum = Unset => ~InRange(x + y))

C6_Witness ==
    /\ tpc = "done" /\ InRange(x + y) /\ InRange(x - y)
    /\ y # 0 /\ sum - diff = 2 * y /\ back = x

(* C7: no step changes globalVar, globalFlag, b or flag (42, false and the
   initialisers of b and flag in every state: 10 and true in the program as
   written), and c, d and e never change once they are set: only a is
   modified after its initialisation. *)
C7_FrameInv ==
    /\ globalVar = 42
    /\ globalFlag = FALSE
    /\ b = literals.b
    /\ flag = literals.flag
    /\ (Literal => b = 10 /\ flag = TRUE)

C7_Frame ==
    /\ []C7_FrameInv
    /\ [][/\ (c # Unset => c' = c)
          /\ (d # Unset => d' = d)
          /\ (e # Unset => e' = e)]_vars

C7_Witness == Literal /\ status = "exit" /\ a # literals.a /\ b = 10 /\ globalVar = 42

(* The modulus of line 24 ends in a trap *)
ModulusTraps == Modulus /\ status' = "trap"

(* C8 as stated: with b = 0 main never gets past line 24 and e is never
   given a value. *)
C8_Original == (literals.b = 0 /\ AfterL23) => (pc = "L24" /\ e = Unset)

(* C8 as amended: with b = 0 the modulus of line 24 can end in the
   arithmetic error, and when it does e has no value and main has gone no
   further (a unchanged, no loop iteration, no return value); the error is
   not certain: when main gets past line 24 instead, e holds some int. *)
C8_Amended ==
    literals.b = 0 =>
        /\ (Running("L24") => ENABLED ModulusTraps)
        /\ (pc = "L24" /\ status = "trap" =>
                e = Unset /\ ret = Unset /\ a = literals.a /\ iters = 0)
        /\ (AfterL24 => e \in IntRange)

C8_Witness == literals.b = 0 /\ pc = "L24" /\ status = "trap" /\ e = Unset

(* C9: whatever a and c are, when the loop is entered with a >= c the next
   step leaves it without running the body (a unchanged, no iteration), and
   the step after that returns that same a. *)
C9_ZeroIterations ==
    /\ [][(Running("L34") /\ iters = 0 /\ a >= c) =>
              (pc' = "L39" /\ status' = "run" /\ a' = a /\ iters' = 0)]_vars
    /\ [][(Running("L39") /\ iters = 0) =>
              (status' = "exit" /\ ret' = a /\ a' = a /\ iters' = 0)]_vars
    /\ [](pc = "L39" /\ iters = 0 => a >= c)

C9_Witness == status = "exit" /\ iters = 0 /\ a >= c /\ ret = a /\ ~Literal

(* C10: in the program as written a <= c + 1 from the conditional on,
   c <= a <= c + 1 once the loop is left, a never exceeds 16, and no
   arithmetic step overflows (none traps, every value is an int). *)
C10_Bounded ==
    Literal => /\ (AfterL24 => a <= c + 1)
               /\ (pc = "L39" => c <= a /\ a <= c + 1)
               /\ a <= 16
               /\ status # "trap"
               /\ a \in IntRange
               /\ (AfterL22 => c \in IntRange)
               /\ (AfterL23 => d \in IntRange)

C10_Witness == Literal /\ pc = "L39" /\ status = "run" /\ a = c + 1

===========================================================================
